---------------------------- MODULE Spec2Model ----------------------------
(***************************************************************************)
(* FriendlyFormPlugin (repoze.who.plugins.friendlyform): the identify and  *)
(* challenge hooks layered over RedirectingFormPlugin, and the query       *)
(* string helpers they use.                                                *)
(*                                                                         *)
(* A Python string is a sequence of one-character strings, so that         *)
(* splitting, quoting, unquoting and int() are computed character by       *)
(* character.  A value that may be None is the record None or Some(v).     *)
(***************************************************************************)
EXTENDS Integers, Sequences, FiniteSets, TLC

(***************************************************************************)
(* Bounds.                                                                 *)
(***************************************************************************)
\* Largest number of name=value pairs in a generated query string.
MaxPairs == 2
\* Largest number of failed login tries followed in one run.
MaxTries == 2

(***************************************************************************)
(* State.                                                                  *)
(***************************************************************************)
VARIABLES
    build,      \* the Python build the plugin runs on (decides dict order)
    plugin,     \* the FriendlyFormPlugin instance: the attributes __init__ sets
    environ,    \* the WSGI environ of the current request
    identity,   \* what identify() returned for the current request
    response,   \* what challenge() returned for the current request
    raised,     \* the exception a hook let escape, "none" when none did
    pc,         \* where the current request is in the pipeline
    hist,       \* what the hooks were given, for the properties below
    ins         \* the inputs and results of the insertion runs (SpecInsert)

vars == <<build, plugin, environ, identity, response, raised, pc, hist, ins>>

(***************************************************************************)
(* Python values.                                                          *)
(***************************************************************************)
None == [some |-> FALSE]
Some(x) == [some |-> TRUE, v |-> x]
IsNone(o) == ~o.some
Val(o) == o.v

\* Python truth of a value that is None or a str
Truthy(o) == o.some /\ Len(o.v) > 0

\* str, int and list values as urlencode() tells them apart: v holds the
\* characters of a str or the elements of a list, n the number of an int
PyStr(s) == [t |-> "str", v |-> s, n |-> 0]
PyInt(n) == [t |-> "int", v |-> <<>>, n |-> n]
PyList(l) == [t |-> "list", v |-> l, n |-> 0]

(***************************************************************************)
(* String primitives.                                                      *)
(***************************************************************************)
\* s[i], for i in 1..Len(s)
At(s, i) == Head(SubSeq(s, i, i))

StartsWith(s, p) == Len(s) >= Len(p) /\ SubSeq(s, 1, Len(p)) = p

\* index of the first character of s that is in cs, 0 when there is none
Find(s, cs) ==
    LET at == {i \in 1..Len(s) : At(s, i) \in cs}
    IN IF at = {} THEN 0 ELSE CHOOSE i \in at : \A j \in at : i <= j

\* s.split(c) for the separators cs
RECURSIVE Split(_, _)
Split(s, cs) ==
    LET cut(i) ==
            IF i = 0 THEN <<s>>
            ELSE <<SubSeq(s, 1, i-1)>> \o Split(SubSeq(s, i+1, Len(s)), cs)
    IN cut(Find(s, cs))

\* s.split(c, 1): the text before the first c, the text after it, and
\* whether c was there
SplitFirst(s, c) ==
    LET cut(i) ==
            IF i = 0 THEN [head |-> s, tail |-> <<>>, found |-> FALSE]
            ELSE [head |-> SubSeq(s, 1, i-1), tail |-> SubSeq(s, i+1, Len(s)),
                  found |-> TRUE]
    IN cut(Find(s, {c}))

\* ''.join(parts)
RECURSIVE Concat(_)
Concat(parts) ==
    IF Len(parts) = 0 THEN <<>>
    ELSE IF Len(parts) = 1 THEN Head(parts)
    ELSE LET h == Len(parts) \div 2
         IN Concat(SubSeq(parts, 1, h)) \o Concat(SubSeq(parts, h+1, Len(parts)))

\* sep.join(parts)
Join(parts, sep) ==
    IF Len(parts) = 0 THEN <<>>
    ELSE Concat([i \in 1..(2 * Len(parts) - 1) |->
                    IF i % 2 = 1 THEN At(parts, (i + 1) \div 2) ELSE sep])

(***************************************************************************)
(* urllib.quote_plus / urllib.unquote, on the characters the model uses.   *)
(* Letters, digits, "_", "." and "-" are safe; a space is written "+";     *)
(* every other character is written %XX.                                   *)
(***************************************************************************)
Escapes ==
    { [chr |-> "/", hex |-> <<"2", "F">>], [chr |-> ":", hex |-> <<"3", "A">>],
      [chr |-> "?", hex |-> <<"3", "F">>], [chr |-> "=", hex |-> <<"3", "D">>],
      [chr |-> "&", hex |-> <<"2", "6">>], [chr |-> "%", hex |-> <<"2", "5">>],
      [chr |-> "+", hex |-> <<"2", "B">>], [chr |-> "#", hex |-> <<"2", "3">>],
      [chr |-> ";", hex |-> <<"3", "B">>] }

HexToChr(h) == (CHOOSE e \in Escapes : e.hex = h).chr
ChrToHex(c) == (CHOOSE e \in Escapes : e.chr = c).hex
IsHex(h) == \E e \in Escapes : e.hex = h
IsUnsafe(c) == \E e \in Escapes : e.chr = c

\* s has an escape %XX at i.  The two characters after a "%" that starts an
\* escape are hex digits, so no escape starts inside another.
EscapeAt(s, i) ==
    i >= 1 /\ i + 2 <= Len(s) /\ At(s, i) = "%" /\ IsHex(SubSeq(s, i+1, i+2))

unquote(s) ==
    Concat([i \in 1..Len(s) |->
               IF EscapeAt(s, i) THEN <<HexToChr(SubSeq(s, i+1, i+2))>>
               ELSE IF EscapeAt(s, i-1) \/ EscapeAt(s, i-2) THEN <<>>
               ELSE <<At(s, i)>>])

\* unquote(s.replace('+', ' ')), as parse_qsl decodes names and values
unquote_plus(s) ==
    unquote(SubSeq([i \in 1..Len(s) |-> IF At(s, i) = "+" THEN " " ELSE At(s, i)],
                   1, Len(s)))

quote_plus(s) ==
    Concat([i \in 1..Len(s) |->
               IF At(s, i) = " " THEN <<"+">>
               ELSE IF IsUnsafe(At(s, i)) THEN <<"%">> \o ChrToHex(At(s, i))
               ELSE <<At(s, i)>>])

(***************************************************************************)
(* int(x) and str(n).                                                      *)
(***************************************************************************)
Digits == <<"0", "1", "2", "3", "4", "5", "6", "7", "8", "9">>
IsDigit(c) == \E i \in 1..Len(Digits) : At(Digits, i) = c
DigitVal(c) == (CHOOSE i \in 1..Len(Digits) : At(Digits, i) = c) - 1

RECURSIVE DigitsVal(_)
DigitsVal(s) ==
    IF Len(s) = 0 THEN 0
    ELSE DigitsVal(SubSeq(s, 1, Len(s)-1)) * Len(Digits) + DigitVal(At(s, Len(s)))

RECURSIVE Strip(_)
Strip(s) ==
    IF Len(s) > 0 /\ Head(s) = " " THEN Strip(Tail(s))
    ELSE IF Len(s) > 0 /\ At(s, Len(s)) = " " THEN Strip(SubSeq(s, 1, Len(s)-1))
    ELSE s

\* int(x) for x None or a str: the integer, or the exception raised
int(x) ==
    LET digits(sign, d) ==
            IF Len(d) > 0 /\ \A i \in 1..Len(d) : IsDigit(At(d, i))
            THEN [exc |-> "none", v |-> sign * DigitsVal(d)]
            ELSE [exc |-> "ValueError", v |-> 0]
        signed(s) ==
            IF Len(s) > 0 /\ Head(s) = "-" THEN digits(0 - 1, Tail(s))
            ELSE IF Len(s) > 0 /\ Head(s) = "+" THEN digits(1, Tail(s))
            ELSE digits(1, s)
    IN IF IsNone(x) THEN [exc |-> "TypeError", v |-> 0]
       ELSE signed(Strip(Val(x)))

RECURSIVE NatStr(_)
NatStr(n) ==
    IF n < Len(Digits) THEN <<At(Digits, n+1)>>
    ELSE NatStr(n \div Len(Digits)) \o <<At(Digits, (n % Len(Digits)) + 1)>>

\* str(v) for a str or an int
str(x) ==
    IF x.t = "str" THEN x.v
    ELSE IF x.n < 0 THEN <<"-">> \o NatStr(0 - x.n) ELSE NatStr(x.n)

(***************************************************************************)
(* cgi.parse_qsl, as paste's parse_dict_querystring (keep_blank_values     *)
(* True) and urlparse.parse_qs (keep_blank_values 0) call it.  The result  *)
(* is a sequence of decoded pairs [k, v].                                  *)
(***************************************************************************)
RECURSIVE ParsePairs(_, _)
ParsePairs(pairs, keep_blank_values) ==
    LET pair(name_value, nv) ==
            IF Len(name_value) = 0 THEN <<>>
            ELSE IF ~nv.found /\ ~keep_blank_values THEN <<>>
            ELSE IF Len(nv.tail) > 0 \/ keep_blank_values
                 THEN <<[k |-> unquote_plus(nv.head), v |-> unquote_plus(nv.tail)]>>
                 ELSE <<>>
    IN IF Len(pairs) = 0 THEN <<>>
       ELSE pair(Head(pairs), SplitFirst(Head(pairs), "="))
            \o ParsePairs(Tail(pairs), keep_blank_values)

parse_qsl(qs, keep_blank_values) ==
    ParsePairs(Split(qs, {"&", ";"}), keep_blank_values)

(***************************************************************************)
(* paste.util.multidict.MultiDict: an ordered list of pairs.               *)
(***************************************************************************)
MDHas(md, key) == \E i \in 1..Len(md) : At(md, i).k = key

\* md.get(key): the first value of key, None when the key is absent
MDGet(md, key) ==
    LET first(values) == IF Len(values) = 0 THEN None ELSE Some(Head(values).v)
    IN first(SelectSeq(md, LAMBDA p : p.k = key))

\* del md[key]: every pair of that key goes
MDDel(md, key) == SelectSeq(md, LAMBDA p : p.k # key)

\* the items of a MultiDict: every value is a str
MDItems(md) == [i \in 1..Len(md) |-> [k |-> At(md, i).k, v |-> PyStr(At(md, i).v)]]

parse_dict_querystring(env) ==
    IF Len(env.QUERY_STRING) = 0 THEN <<>>
    ELSE parse_qsl(env.QUERY_STRING, TRUE)

(***************************************************************************)
(* The Python dict.  Its iteration order is the order of the slots of its  *)
(* hash table; a new key goes to the first free slot of its probe          *)
(* sequence, an existing key keeps its slot.  The probe sequences belong   *)
(* to the build: "cpython2" is CPython 2.7 (64 bit, 8-slot table, string   *)
(* hash not randomised), "ordered" is a build whose dicts keep insertion   *)
(* order (PyPy).  Dicts of at most five keys never resize.                 *)
(***************************************************************************)
Builds == {"cpython2", "ordered"}

LOGINS == <<"_", "_", "l", "o", "g", "i", "n", "s">>
CAME_FROM == <<"c", "a", "m", "e", "_", "f", "r", "o", "m">>

Probe(key) ==
    (IF build = "cpython2"
     THEN CASE key = LOGINS -> <<1, 2, 3, 6, 1, 3>>
            [] key = CAME_FROM -> <<5, 2, 3, 4, 2, 3>>
            [] key = <<"e">> -> <<5, 2, 6, 8, 1, 3>>
            [] key = <<"n">> -> <<8, 4, 4, 2, 7, 3>>
            [] OTHER -> <<>>
     ELSE <<>>) \o <<1, 2, 3, 4, 5, 6, 7, 8>>

Free == [used |-> FALSE, k |-> <<>>, v |-> PyStr(<<>>)]
EmptyDict == <<Free, Free, Free, Free, Free, Free, Free, Free>>

\* the slot that holds key, 0 when none does
SlotOf(d, key) ==
    LET at == {i \in 1..Len(d) : At(d, i).used /\ At(d, i).k = key}
    IN IF at = {} THEN 0 ELSE CHOOSE i \in at : TRUE

DictHas(d, key) == SlotOf(d, key) # 0
DictGet(d, key) == At(d, SlotOf(d, key)).v

\* the first slot of the probe sequence p that is free in d
FirstFree(d, p) == Head(SelectSeq(p, LAMBDA slot : ~At(d, slot).used))

\* d[key] = value
DictSet(d, key, value) ==
    LET store(slot) ==
            [d EXCEPT ![IF slot # 0 THEN slot ELSE FirstFree(d, Probe(key))] =
                          [used |-> TRUE, k |-> key, v |-> value]]
    IN store(SlotOf(d, key))

\* d.items(), in iteration order
DictItems(d) == SelectSeq(d, LAMBDA e : e.used)

\* urlparse.parse_qs(qs): name -> list of values, blank values dropped
RECURSIVE DictOfPairs(_, _)
DictOfPairs(d, pairs) ==
    LET add(name, value) ==
            IF DictHas(d, name)
            THEN DictSet(d, name, PyList(DictGet(d, name).v \o <<value>>))
            ELSE DictSet(d, name, PyList(<<value>>))
    IN IF Len(pairs) = 0 THEN d
       ELSE DictOfPairs(add(Head(pairs).k, Head(pairs).v), Tail(pairs))

parse_qs(qs) == DictOfPairs(EmptyDict, parse_qsl(qs, FALSE))

(***************************************************************************)
(* urllib.urlencode(query, doseq=True) over the items of a dict or of a    *)
(* MultiDict: a str or an int gives one name=value, a list one per element *)
(***************************************************************************)
EncodeItem(item) ==
    IF item.v.t = "list"
    THEN [i \in 1..Len(item.v.v) |->
             quote_plus(item.k) \o <<"=">> \o quote_plus(At(item.v.v, i))]
    ELSE <<quote_plus(item.k) \o <<"=">> \o quote_plus(str(item.v))>>

urlencode(items) ==
    Join(Concat([i \in 1..Len(items) |-> EncodeItem(At(items, i))]), <<"&">>)

(***************************************************************************)
(* urlparse / urlunparse: the fragment is what follows the first "#", the  *)
(* query what follows the first "?" before it; scheme, host, path and      *)
(* params stay together in front.  An empty query or fragment is not       *)
(* written back.                                                           *)
(***************************************************************************)
urlparse(url) ==
    LET query(f, q) == [front |-> q.head, query |-> q.tail, fragment |-> f.tail]
        fragment(f) == query(f, SplitFirst(f.head, "?"))
    IN fragment(SplitFirst(url, "#"))

urlunparse(parts) ==
    parts.front
    \o (IF Len(parts.query) > 0 THEN <<"?">> \o parts.query ELSE <<>>)
    \o (IF Len(parts.fragment) > 0 THEN <<"#">> \o parts.fragment ELSE <<>>)

(***************************************************************************)
(* paste.httpexceptions and paste.response, as the plugin uses them.  A    *)
(* WSGI application is a record of its status and its headers, a header a  *)
(* record [name, value].                                                   *)
(***************************************************************************)
\* s.lower(), on the letters header names are written with
lower(s) ==
    SubSeq([i \in 1..Len(s) |->
               CASE At(s, i) = "L" -> "l" [] At(s, i) = "S" -> "s"
                 [] At(s, i) = "C" -> "c" [] OTHER -> At(s, i)],
           1, Len(s))

LOCATION == <<"l", "o", "c", "a", "t", "i", "o", "n">>
SET_COOKIE == <<"s", "e", "t", "-", "c", "o", "o", "k", "i", "e">>

\* the headers named name, whatever the case of their letters
HeadersNamed(headers, name) == SelectSeq(headers, LAMBDA h : lower(h.name) = name)

\* app.location(): the value of the first header named location
location(app) == Head(HeadersNamed(app.headers, LOCATION)).value

\* HTTPFound(detail, headers): without a location header the detail is the
\* location and is appended as one; an empty location fails the assertion
HTTPFound(detail, headers) ==
    IF Len(HeadersNamed(headers, LOCATION)) > 0
    THEN [exc |-> "none", status |-> "302", headers |-> headers]
    ELSE IF Len(detail) = 0
         THEN [exc |-> "AssertionError", status |-> "302", headers |-> headers]
         ELSE [exc |-> "none", status |-> "302",
               headers |-> headers \o <<[name |-> LOCATION, value |-> detail]>>]

HTTPUnauthorized == [exc |-> "none", status |-> "401", headers |-> <<>>]

(***************************************************************************)
(* The deployment: the constructor's positional arguments and the server.  *)
(***************************************************************************)
LoginFormUrl == <<"/", "f">>
LoginHandlerPath == <<"/", "i">>
LogoutHandlerPath == <<"/", "o">>
OtherPath == <<"/", "p">>
ServerUrl == <<"h", "t", "t", "p", ":", "/", "/", "s">>

\* paste.request.construct_url(environ)
construct_url(env) ==
    ServerUrl \o env.SCRIPT_NAME \o env.PATH_INFO
    \o (IF Len(env.QUERY_STRING) > 0 THEN <<"?">> \o env.QUERY_STRING ELSE <<>>)

(***************************************************************************)
(* FriendlyFormPlugin's helpers.                                           *)
(***************************************************************************)
\* _get_full_path prefixing whatever it is given, URLs included
_get_full_path_Always(path, env) == env.SCRIPT_NAME \o path

_get_full_path(path, env) ==
    IF StartsWith(path, <<"/">>) THEN env.SCRIPT_NAME \o path ELSE path

\* _get_logins catching ValueError alone: the TypeError of int(None)
\* escapes
_get_logins_ValueErrorOnly(env, force_typecast) ==
    LET typecast(cast) ==
            IF cast.exc = "ValueError"
            THEN [exc |-> "none", v |-> 0]
            ELSE cast
        logins(failed_logins) ==
            IF force_typecast THEN typecast(int(failed_logins))
            ELSE [exc |-> "none", v |-> failed_logins]
    IN logins(MDGet(parse_dict_querystring(env), plugin.login_counter_name))

\* The counter of the query string: None or a str, and with force_typecast
\* an int, 0 when int() raises ValueError or TypeError.  exc is an
\* exception that escapes the function.
_get_logins(env, force_typecast) ==
    LET typecast(cast) ==
            IF cast.exc \in {"ValueError", "TypeError"}
            THEN [exc |-> "none", v |-> 0]
            ELSE cast
        logins(failed_logins) ==
            IF force_typecast THEN typecast(int(failed_logins))
            ELSE [exc |-> "none", v |-> failed_logins]
    IN logins(MDGet(parse_dict_querystring(env), plugin.login_counter_name))

_insert_qs_variable(url, var_name, var_value) ==
    LET insert(url_parts) ==
            urlunparse([url_parts EXCEPT
                           !.query = urlencode(DictItems(
                               DictSet(parse_qs(url_parts.query), var_name,
                                       var_value)))])
    IN insert(urlparse(url))

_set_logins_in_url(url, logins) ==
    _insert_qs_variable(url, plugin.login_counter_name, PyInt(logins))

(***************************************************************************)
(* RedirectingFormPlugin (repoze.who.plugins.form), the parent class.      *)
(***************************************************************************)
\* environ.get('HTTP_REFERER', '/')
Referer(env) == IF IsNone(env.HTTP_REFERER) THEN <<"/">> ELSE Val(env.HTTP_REFERER)

\* form.get('came_from', referer), the form being the query string's pairs
\* (the request body carries the credentials only)
FormCameFrom(env) ==
    LET get(came_from) == IF IsNone(came_from) THEN Referer(env) ELSE Val(came_from)
    IN get(MDGet(parse_dict_querystring(env), CAME_FROM))

\* identify(environ): the environ afterwards, the identity returned, and
\* the exception that escapes
RedirectingFormPlugin_identify(env) ==
    LET login(app) ==
            IF app.exc # "none"
            THEN [environ |-> env, identity |-> None, exc |-> app.exc]
            ELSE [environ |-> [env EXCEPT !.application = Some(app)],
                  identity |-> env.credentials, exc |-> "none"]
    IN IF env.PATH_INFO = plugin.logout_handler_path
       THEN [environ |-> [env EXCEPT !.came_from = Some(FormCameFrom(env)),
                                     !.application = Some(HTTPUnauthorized)],
             identity |-> None, exc |-> "none"]
       ELSE IF env.PATH_INFO = plugin.login_handler_path
       THEN login(HTTPFound(FormCameFrom(env), <<>>))
       ELSE [environ |-> env, identity |-> None, exc |-> "none"]

\* challenge(environ, status, app_headers, forget_headers): a redirect to
\* the login form with came_from in its query string, the forget headers
\* and the application's cookies
RedirectingFormPlugin_challenge(env, app_headers, forget_headers) ==
    LET came_from == IF IsNone(env.came_from) THEN construct_url(env)
                     ELSE Val(env.came_from)
        login_form_url(url_parts) ==
            urlunparse([url_parts EXCEPT
                           !.query = urlencode(DictItems(
                               DictSet(parse_qs(url_parts.query), CAME_FROM,
                                       PyStr(came_from))))])
    IN HTTPFound(<<>>,
                 <<[name |-> <<"L", "o", "c", "a", "t", "i", "o", "n">>,
                    value |-> login_form_url(urlparse(plugin.login_form_url))]>>
                 \o forget_headers \o HeadersNamed(app_headers, SET_COOKIE))

(***************************************************************************)
(* FriendlyFormPlugin.                                                     *)
(***************************************************************************)
\* kwargs.pop(name, None), the keyword arguments being a list of items
\* [k, v]: the value given under name, None when name was not given
pop(kwargs, name) ==
    LET value(given) == IF Len(given) = 0 THEN None ELSE Head(given).v
    IN value(SelectSeq(kwargs, LAMBDA item : item.k = name))

\* FriendlyFormPlugin with `is None` where the code tests the name's truth:
\* an empty name is kept
FriendlyFormPlugin_KeepsEmptyName(kwargs) ==
    [login_form_url |-> LoginFormUrl,
     login_handler_path |-> LoginHandlerPath,
     logout_handler_path |-> LogoutHandlerPath,
     post_login_url |-> pop(kwargs, "post_login_url"),
     post_logout_url |-> pop(kwargs, "post_logout_url"),
     login_counter_name |-> IF IsNone(pop(kwargs, "login_counter_name"))
                            THEN LOGINS
                            ELSE Val(pop(kwargs, "login_counter_name"))]

\* __init__: the keyword arguments kept, the counter's name defaulted
FriendlyFormPlugin(kwargs) ==
    [login_form_url |-> LoginFormUrl,
     login_handler_path |-> LoginHandlerPath,
     logout_handler_path |-> LogoutHandlerPath,
     post_login_url |-> pop(kwargs, "post_login_url"),
     post_logout_url |-> pop(kwargs, "post_logout_url"),
     login_counter_name |-> IF Truthy(pop(kwargs, "login_counter_name"))
                            THEN Val(pop(kwargs, "login_counter_name"))
                            ELSE LOGINS]

\* IdentifyLoginHandler counting the try it is handling: the counter
\* written is one more than the counter read
IdentifyLoginHandler_Incrementing(env) ==
    LET post_login(destination, came_from) ==
            IF IsNone(came_from) THEN destination
            ELSE _insert_qs_variable(destination, CAME_FROM, PyStr(Val(came_from)))
        destination ==
            IF Truthy(plugin.post_login_url)
            THEN post_login(_get_full_path(Val(plugin.post_login_url), env),
                            MDGet(parse_dict_querystring(env), CAME_FROM))
            ELSE location(Val(env.application))
        redirect(failed_logins) ==
            IF failed_logins.exc # "none"
            THEN [exc |-> failed_logins.exc, status |-> "302", headers |-> <<>>]
            ELSE HTTPFound(_set_logins_in_url(destination, failed_logins.v + 1), <<>>)
    IN redirect(_get_logins(env, TRUE))

\* identify, the login handler's branch: the application that replaces the
\* parent's redirection
IdentifyLoginHandler(env) ==
    LET post_login(destination, came_from) ==
            IF IsNone(came_from) THEN destination
            ELSE _insert_qs_variable(destination, CAME_FROM, PyStr(Val(came_from)))
        destination ==
            IF Truthy(plugin.post_login_url)
            THEN post_login(_get_full_path(Val(plugin.post_login_url), env),
                            MDGet(parse_dict_querystring(env), CAME_FROM))
            ELSE location(Val(env.application))
        redirect(failed_logins) ==
            IF failed_logins.exc # "none"
            THEN [exc |-> failed_logins.exc, status |-> "302", headers |-> <<>>]
            ELSE HTTPFound(_set_logins_in_url(destination, failed_logins.v), <<>>)
    IN redirect(_get_logins(env, TRUE))

\* IdentifyLoginForm hiding the counter without reading it: the environ's
\* counter starts from 0 again
IdentifyLoginForm_Reset(env) ==
    LET hide(qs) ==
            IF MDHas(qs, plugin.login_counter_name)
            THEN urlencode(MDItems(MDDel(qs, plugin.login_counter_name)))
            ELSE env.QUERY_STRING
    IN [exc |-> "none",
        environ |-> [env EXCEPT
                       !.logins = Some(0),
                       !.QUERY_STRING = hide(parse_dict_querystring(env))]]

\* identify, the login form's branch: the counter moves from the query
\* string into the environ
IdentifyLoginForm(env) ==
    LET hide(qs) ==
            IF MDHas(qs, plugin.login_counter_name)
            THEN urlencode(MDItems(MDDel(qs, plugin.login_counter_name)))
            ELSE env.QUERY_STRING
        load(logins) ==
            IF logins.exc # "none"
            THEN [exc |-> logins.exc, environ |-> env]
            ELSE [exc |-> "none",
                  environ |-> [env EXCEPT
                                 !.logins = Some(logins.v),
                                 !.QUERY_STRING = hide(parse_dict_querystring(env))]]
    IN load(_get_logins(env, TRUE))

\* identify returning nothing from the login handler's branch: the
\* parent's identity is lost there
identify_NoReturn(env) ==
    LET login_handler(base, app) ==
            [environ |-> IF app.exc = "none"
                         THEN [base.environ EXCEPT !.application = Some(app)]
                         ELSE base.environ,
             identity |-> None, exc |-> app.exc]
        login_form(base, form) ==
            [environ |-> form.environ, identity |-> base.identity,
             exc |-> form.exc]
        override(base) ==
            IF base.exc # "none" THEN base
            ELSE IF base.environ.PATH_INFO = plugin.login_handler_path
            THEN login_handler(base, IdentifyLoginHandler(base.environ))
            ELSE IF base.environ.PATH_INFO = plugin.login_form_url
                    \/ Truthy(_get_logins(base.environ, FALSE).v)
            THEN login_form(base, IdentifyLoginForm(base.environ))
            ELSE base
    IN override(RedirectingFormPlugin_identify(env))

identify(env) ==
    LET login_handler(base, app) ==
            [environ |-> IF app.exc = "none"
                         THEN [base.environ EXCEPT !.application = Some(app)]
                         ELSE base.environ,
             identity |-> base.identity, exc |-> app.exc]
        login_form(base, form) ==
            [environ |-> form.environ, identity |-> base.identity,
             exc |-> form.exc]
        override(base) ==
            IF base.exc # "none" THEN base
            ELSE IF base.environ.PATH_INFO = plugin.login_handler_path
            THEN login_handler(base, IdentifyLoginHandler(base.environ))
            ELSE IF base.environ.PATH_INFO = plugin.login_form_url
                    \/ Truthy(_get_logins(base.environ, FALSE).v)
            THEN login_form(base, IdentifyLoginForm(base.environ))
            ELSE base
    IN override(RedirectingFormPlugin_identify(env))

\* OtherHeaders comparing the names as they are written: 'Location' is not
\* 'location'
OtherHeaders_CaseSensitive(challenger) ==
    SelectSeq(challenger.headers, LAMBDA h : h.name # LOCATION)

\* the challenger's headers but its location
OtherHeaders(challenger) ==
    SelectSeq(challenger.headers, LAMBDA h : lower(h.name) # LOCATION)

\* LogoutDestination with the fallbacks in another order: SCRIPT_NAME is
\* taken before the referrer
LogoutDestination_ScriptFirst(env) ==
    LET post_logout(destination) ==
            IF Truthy(env.came_from)
            THEN _insert_qs_variable(destination, CAME_FROM,
                                     PyStr(Val(env.came_from)))
            ELSE destination
    IN IF Truthy(plugin.post_logout_url)
       THEN post_logout(_get_full_path(Val(plugin.post_logout_url), env))
       ELSE IF Len(env.SCRIPT_NAME) > 0 THEN env.SCRIPT_NAME
       ELSE IF Truthy(env.came_from) THEN Val(env.came_from)
       ELSE <<"/">>

\* challenge, the logout handler's branch: where the user is sent
LogoutDestination(env) ==
    LET post_logout(destination) ==
            IF Truthy(env.came_from)
            THEN _insert_qs_variable(destination, CAME_FROM,
                                     PyStr(Val(env.came_from)))
            ELSE destination
    IN IF Truthy(plugin.post_logout_url)
       THEN post_logout(_get_full_path(Val(plugin.post_logout_url), env))
       ELSE IF Truthy(env.came_from) THEN Val(env.came_from)
       ELSE IF Len(env.SCRIPT_NAME) > 0 THEN env.SCRIPT_NAME
       ELSE <<"/">>

\* challenge writing the counter it found, not the incremented one, into
\* the login form's URL
challenge_StaleCounter(env, app_headers, forget_headers) ==
    LET override(challenger) ==
            IF env.PATH_INFO = plugin.logout_handler_path
            THEN [environ |-> env, challenger |-> challenger,
                  app |-> HTTPFound(LogoutDestination(env),
                                    OtherHeaders(challenger))]
            ELSE IF ~IsNone(env.logins)
            THEN [environ |-> [env EXCEPT !.logins = Some(Val(@) + 1)],
                  challenger |-> challenger,
                  app |-> HTTPFound(_set_logins_in_url(location(challenger),
                                                       Val(env.logins)),
                                    OtherHeaders(challenger))]
            ELSE [environ |-> env, challenger |-> challenger, app |-> challenger]
    IN override(RedirectingFormPlugin_challenge(env, app_headers, forget_headers))

\* challenge counting from 0 when the environ has no counter, where the
\* code returns the parent's challenger
challenge_AlwaysCounts(env, app_headers, forget_headers) ==
    LET logins == IF IsNone(env.logins) THEN 0 ELSE Val(env.logins)
        override(challenger) ==
            IF env.PATH_INFO = plugin.logout_handler_path
            THEN [environ |-> env, challenger |-> challenger,
                  app |-> HTTPFound(LogoutDestination(env),
                                    OtherHeaders(challenger))]
            ELSE [environ |-> [env EXCEPT !.logins = Some(logins + 1)],
                  challenger |-> challenger,
                  app |-> HTTPFound(_set_logins_in_url(location(challenger),
                                                       logins + 1),
                                    OtherHeaders(challenger))]
    IN override(RedirectingFormPlugin_challenge(env, app_headers, forget_headers))

\* challenge: the environ afterwards, the parent's challenger and the
\* application returned
challenge(env, app_headers, forget_headers) ==
    LET override(challenger) ==
            IF env.PATH_INFO = plugin.logout_handler_path
            THEN [environ |-> env, challenger |-> challenger,
                  app |-> HTTPFound(LogoutDestination(env),
                                    OtherHeaders(challenger))]
            ELSE IF ~IsNone(env.logins)
            THEN [environ |-> [env EXCEPT !.logins = Some(Val(@) + 1)],
                  challenger |-> challenger,
                  app |-> HTTPFound(_set_logins_in_url(location(challenger),
                                                       Val(env.logins) + 1),
                                    OtherHeaders(challenger))]
            ELSE [environ |-> env, challenger |-> challenger, app |-> challenger]
    IN override(RedirectingFormPlugin_challenge(env, app_headers, forget_headers))

(***************************************************************************)
(* The requests and the configurations explored.                           *)
(***************************************************************************)
PostLoginUrls ==
    {<<"/", "w">>, <<"h", "t", "t", "p", ":", "/", "/", "s", "/", "w">>}
PostLogoutUrls ==
    {<<"/", "b">>, <<"h", "t", "t", "p", ":", "/", "/", "s", "/", "b">>}

\* the counter's name as the constructor may be given it: not at all, as
\* None, empty, or a name
CounterNames ==
    {<<>>} \cup {<<[k |-> "login_counter_name", v |-> n]>> :
                   n \in {None, Some(<<>>), Some(<<"n">>)}}

\* the keyword arguments of the constructor: the counter's name alone, or
\* a post-login or post-logout URL with the default name or another
Kwargs ==
    CounterNames
    \cup {name \o <<[k |-> "post_login_url", v |-> Some(w)]>> :
            name \in {<<>>, <<[k |-> "login_counter_name", v |-> Some(<<"n">>)]>>},
            w \in PostLoginUrls}
    \cup {name \o <<[k |-> "post_logout_url", v |-> Some(b)]>> :
            name \in {<<>>, <<[k |-> "login_counter_name", v |-> Some(<<"n">>)]>>},
            b \in PostLogoutUrls}

\* the values a request gives the counter: a number, a word, nothing, a
\* negative number
CounterValues == {<<"1">>, <<"x">>, <<>>, <<"-", "1">>}

\* the name=value pairs query strings are made of
RawPairs ==
    {plugin.login_counter_name \o <<"=">> \o v : v \in CounterValues}
    \cup {CAME_FROM \o <<"=", "%", "2", "F", "p">>, CAME_FROM \o <<"=">>,
          <<"e", "=", "1">>}

QueryStrings ==
    {Join(ps, <<"&">>) : ps \in UNION {[1..n -> RawPairs] : n \in 0..MaxPairs}}

Paths == {LoginFormUrl, LoginHandlerPath, LogoutHandlerPath, OtherPath}
ScriptNames == {<<>>, <<"/", "a">>}
Credentials == Some([login |-> <<"u">>, password |-> <<"x">>])
ForgetHeaders ==
    { <<[name |-> <<"S", "e", "t", "-", "C", "o", "o", "k", "i", "e">>,
         value |-> <<"x">>]>> }
AppHeaders ==
    { <<[name |-> <<"a", "p", "p">>, value |-> <<"1">>],
        [name |-> <<"s", "e", "t", "-", "c", "o", "o", "k", "i", "e">>,
         value |-> <<"y">>]>> }

\* the environ of a request: the WSGI keys the hooks read, the credentials
\* of its body, and the keys the hooks add (None while absent)
Request(path, script, qs, referer, credentials) ==
    [PATH_INFO |-> path, SCRIPT_NAME |-> script, QUERY_STRING |-> qs,
     HTTP_REFERER |-> referer, credentials |-> credentials,
     came_from |-> None, logins |-> None, application |-> None]

NoRequest == Request(<<>>, <<>>, <<>>, None, None)
NoHist == [kwargs |-> <<>>, env0 |-> NoRequest, base |-> None,
           env1 |-> NoRequest, challenger |-> None, tries |-> 0, flow |-> FALSE]
NoIns == [url |-> <<>>, key |-> <<>>, value |-> PyStr(<<>>), once |-> <<>>,
          twice |-> <<>>, step |-> "off"]

(***************************************************************************)
(* The request pipeline: repoze.who calls identify on every request and    *)
(* challenge when the request is denied.                                   *)
(***************************************************************************)
Init ==
    /\ build \in Builds
    /\ \E kwargs \in Kwargs :
          /\ plugin = FriendlyFormPlugin(kwargs)
          /\ hist = [NoHist EXCEPT !.kwargs = kwargs]
    /\ environ = NoRequest
    /\ identity = None
    /\ response = None
    /\ raised = "none"
    /\ pc = "start"
    /\ ins = NoIns

NewRequest ==
    /\ pc = "start"
    /\ \E path \in Paths, script \in ScriptNames, qs \in QueryStrings :
         \E referer \in (IF qs = <<>> THEN {None, Some(<<"/", "r">>)} ELSE {None}),
            cred \in (IF path = LoginHandlerPath THEN {None, Credentials}
                      ELSE {None}) :
            environ' = Request(path, script, qs, referer, cred)
    /\ pc' = "request"
    /\ UNCHANGED <<build, plugin, identity, response, raised, hist, ins>>

Identify ==
    /\ pc = "request"
    /\ \E r \in {identify(environ)} :
          /\ environ' = r.environ
          /\ identity' = r.identity
          /\ raised' = r.exc
          /\ pc' = IF r.exc = "none" THEN "identified" ELSE "identify_failed"
    /\ hist' = [hist EXCEPT
                  !.env0 = environ,
                  !.base = RedirectingFormPlugin_identify(environ).environ.application]
    /\ UNCHANGED <<build, plugin, response, ins>>

\* the request is denied: the application answered 401, or the logout
\* handler's 401 application stands in for it
Challenge ==
    /\ pc = "identified"
    /\ IF IsNone(environ.application) THEN TRUE
       ELSE Val(environ.application).status = "401"
    /\ \E app_headers \in AppHeaders, forget_headers \in ForgetHeaders :
         \E r \in {challenge(environ, app_headers, forget_headers)} :
            /\ environ' = r.environ
            /\ response' = Some(r.app)
            /\ raised' = r.app.exc
            /\ pc' = IF r.app.exc = "none" THEN "challenged" ELSE "challenge_failed"
            /\ hist' = [hist EXCEPT
                          !.env1 = environ,
                          !.challenger = Some(r.challenger),
                          !.flow = IF environ.PATH_INFO = OtherPath
                                   THEN IsNone(environ.logins) \/ @
                                   ELSE FALSE]
    /\ UNCHANGED <<build, plugin, identity, ins>>

\* the path of a URL on this server
UrlPath(url) ==
    LET path(front) ==
            IF StartsWith(front, ServerUrl)
            THEN SubSeq(front, Len(ServerUrl) + 1, Len(front)) ELSE front
    IN path(urlparse(url).front)

\* the browser follows a redirection to url
Follow(url) ==
    /\ \E path \in {UrlPath(url)} :
          /\ StartsWith(path, environ.SCRIPT_NAME)
          /\ environ' = Request(SubSeq(path, Len(environ.SCRIPT_NAME) + 1, Len(path)),
                                environ.SCRIPT_NAME, urlparse(url).query,
                                None, None)
    /\ identity' = None
    /\ response' = None
    /\ pc' = "request"
    /\ UNCHANGED <<build, plugin, raised, hist, ins>>

FollowChallenge ==
    /\ pc = "challenged"
    /\ hist.flow
    /\ Follow(location(Val(response)))

\* the credentials were wrong: the login handler's redirection is followed
FollowLogin ==
    /\ pc = "identified"
    /\ hist.flow
    /\ environ.PATH_INFO = plugin.login_handler_path
    /\ Follow(location(Val(environ.application)))

\* the login form posts to the login handler, with the came_from it was
\* given and the counter of the environ in the query string
SubmitLogin ==
    /\ pc = "identified"
    /\ hist.flow
    /\ environ.PATH_INFO = plugin.login_form_url
    /\ hist.tries < MaxTries
    /\ LET came_from == MDGet(parse_dict_querystring(environ), CAME_FROM)
           items == (IF IsNone(came_from) THEN <<>>
                     ELSE <<[k |-> CAME_FROM, v |-> PyStr(Val(came_from))]>>)
                    \o <<[k |-> plugin.login_counter_name,
                          v |-> PyInt(Val(environ.logins))]>>
       IN environ' = Request(plugin.login_handler_path, environ.SCRIPT_NAME,
                             urlencode(items), None, Credentials)
    /\ identity' = None
    /\ response' = None
    /\ pc' = "request"
    /\ hist' = [hist EXCEPT !.tries = @ + 1]
    /\ UNCHANGED <<build, plugin, raised, ins>>

Next ==
    \/ NewRequest
    \/ Identify
    \/ Challenge
    \/ FollowChallenge
    \/ FollowLogin
    \/ SubmitLogin

Spec == Init /\ [][Next]_vars

(***************************************************************************)
(* _insert_qs_variable on its own: a URL, a name and a value are drawn,    *)
(* the variable is inserted, and inserted again into the result.           *)
(***************************************************************************)
InsertPairs ==
    {<<"e", "=", "1">>, CAME_FROM \o <<"=", "%", "2", "F", "p">>,
     LOGINS \o <<"=", "1">>, <<"n", "=", "2">>, <<"n", "=">>}

InsertFragments == {<<>>, <<"t">>}

InsertUrls ==
    {front \o (IF Len(query) > 0 THEN <<"?">> \o query ELSE <<>>)
           \o (IF Len(fragment) > 0 THEN <<"#">> \o fragment ELSE <<>>) :
       front \in PostLoginUrls,
       query \in {Join(ps, <<"&">>) :
                    ps \in UNION {[1..n -> InsertPairs] : n \in 0..MaxPairs}},
       fragment \in InsertFragments}

InsertKeys == {CAME_FROM, LOGINS, <<"e">>}
InsertValues == {PyStr(<<"/", "x">>), PyInt(2)}

InitInsert ==
    /\ build \in Builds
    /\ plugin = FriendlyFormPlugin(<<>>)
    /\ environ = NoRequest
    /\ identity = None
    /\ response = None
    /\ raised = "none"
    /\ pc = "insert"
    /\ hist = NoHist
    /\ ins \in {[NoIns EXCEPT !.url = url, !.key = key, !.value = value,
                              !.step = "new"] :
                  url \in InsertUrls, key \in InsertKeys, value \in InsertValues}

InsertOnce ==
    /\ ins.step = "new"
    /\ ins' = [ins EXCEPT !.once = _insert_qs_variable(ins.url, ins.key, ins.value),
                          !.step = "once"]
    /\ UNCHANGED <<build, plugin, environ, identity, response, raised, pc, hist>>

InsertTwice ==
    /\ ins.step = "once"
    /\ ins' = [ins EXCEPT !.twice = _insert_qs_variable(ins.once, ins.key, ins.value),
                          !.step = "twice"]
    /\ UNCHANGED <<build, plugin, environ, identity, response, raised, pc, hist>>

NextInsert ==
    \/ InsertOnce
    \/ InsertTwice

SpecInsert == InitInsert /\ [][NextInsert]_vars

(***************************************************************************)
(* What the properties below read off a URL or a query string.             *)
(***************************************************************************)
\* the name=value pairs of a query string, decoded, blank values included
Params(qs) == IF Len(qs) = 0 THEN <<>> ELSE parse_qsl(qs, TRUE)

\* the values a query string gives to a name, in order
ValuesOf(qs, name) ==
    LET named(pairs) ==
            [i \in 1..Len(pairs) |-> At(pairs, i).v]
    IN named(SelectSeq(Params(qs), LAMBDA p : p.k = name))

\* the pairs of a query string whose name is not name
Others(qs, name) == SelectSeq(Params(qs), LAMBDA p : p.k # name)

\* two lists of pairs hold the same pairs the same number of times
SamePairs(a, b) ==
    /\ Len(a) = Len(b)
    /\ \A i \in 1..Len(a) :
          Len(SelectSeq(a, LAMBDA p : p = At(a, i)))
          = Len(SelectSeq(b, LAMBDA p : p = At(a, i)))

\* the part of a URL in front of its query string, and its query string
UrlFront(url) == urlparse(url).front
UrlQuery(url) == urlparse(url).query

\* the counter a query string carries as the specification reads it: the
\* integer its first value is, 0 when the name is absent or int() refuses
CounterRead(env) ==
    LET read(cast) == IF cast.exc = "none" THEN cast.v ELSE 0
    IN read(int(MDGet(parse_dict_querystring(env), plugin.login_counter_name)))

\* the counter of the incoming query string is absent or not an integer
CounterInvalid(env) ==
    int(MDGet(parse_dict_querystring(env), plugin.login_counter_name)).exc # "none"

\* the application identify left in the environ, and the one challenge
\* returned
App == Val(environ.application)
Response == Val(response)

(***************************************************************************)
(* Properties of challenge.                                                *)
(***************************************************************************)
\* challenge has returned or failed, and this is the environ it was given
Challenged == pc \in {"challenged", "challenge_failed"}

\* the destination of a logout, in the priority order of the specification
C1_Expected(env) ==
    IF Truthy(plugin.post_logout_url)
    THEN (IF StartsWith(Val(plugin.post_logout_url), <<"/">>)
          THEN env.SCRIPT_NAME \o Val(plugin.post_logout_url)
          ELSE Val(plugin.post_logout_url))
    ELSE IF Truthy(env.came_from) THEN Val(env.came_from)
    ELSE IF env.SCRIPT_NAME # <<>> THEN env.SCRIPT_NAME
    ELSE <<"/">>

\* C1: every challenge on the logout handler's path returns a redirect
\* that is not the parent's challenge to the login form.  Its destination
\* is the post-logout URL when one is configured (a path prefixed with
\* SCRIPT_NAME, a URL as it is), carrying the environ's came_from as its
\* came_from query variable when that is non-empty; otherwise the environ's
\* came_from; otherwise SCRIPT_NAME; otherwise "/".  A login counter in the
\* environ changes nothing.
C1_LogoutRedirect ==
    (Challenged /\ hist.env1.PATH_INFO = plugin.logout_handler_path) =>
        /\ pc = "challenged"
        /\ Response.status = "302"
        /\ Response # Val(hist.challenger)
        /\ UrlFront(location(Response)) = UrlFront(C1_Expected(hist.env1))
        /\ IF Truthy(plugin.post_logout_url)
           THEN Params(UrlQuery(location(Response)))
                = (IF Truthy(hist.env1.came_from)
                   THEN <<[k |-> CAME_FROM, v |-> Val(hist.env1.came_from)]>>
                   ELSE <<>>)
           ELSE location(Response) = C1_Expected(hist.env1)

\* a logout with a counter in the environ, no post-logout URL and an empty
\* came_from was sent to SCRIPT_NAME
C1_Witness ==
    /\ pc = "challenged"
    /\ hist.env1.PATH_INFO = plugin.logout_handler_path
    /\ ~IsNone(hist.env1.logins)
    /\ IsNone(plugin.post_logout_url)
    /\ hist.env1.came_from = Some(<<>>)
    /\ location(Response) = <<"/", "a">>

\* C2: when challenge is called off the logout handler's path with a
\* counter n in the environ, the environ's counter becomes n+1 and the
\* result is a redirect to the parent challenge's location whose counter
\* variable is n+1, once, every other query variable of that location
\* being kept.
C2_CounterIncremented ==
    (Challenged /\ hist.env1.PATH_INFO # plugin.logout_handler_path
                /\ ~IsNone(hist.env1.logins)) =>
        /\ pc = "challenged"
        /\ environ.logins = Some(Val(hist.env1.logins) + 1)
        /\ Response.status = "302"
        /\ UrlFront(location(Response)) = UrlFront(location(Val(hist.challenger)))
        /\ ValuesOf(UrlQuery(location(Response)), plugin.login_counter_name)
           = <<str(PyInt(Val(hist.env1.logins) + 1))>>
        /\ SamePairs(Others(UrlQuery(location(Response)), plugin.login_counter_name),
                     Others(UrlQuery(location(Val(hist.challenger))),
                            plugin.login_counter_name))

\* a challenge with the counter 1 in the environ redirected to the login
\* form with the counter 2 and the parent's came_from
C2_Witness ==
    /\ pc = "challenged"
    /\ hist.env1.PATH_INFO = OtherPath
    /\ hist.env1.logins = Some(1)
    /\ environ.logins = Some(2)
    /\ ValuesOf(UrlQuery(location(Response)), plugin.login_counter_name) = <<<<"2">>>>
    /\ Len(ValuesOf(UrlQuery(location(Response)), CAME_FROM)) = 1

\* C3: when challenge is called off the logout handler's path with no
\* counter in the environ, the result is the parent's challenge itself:
\* same location, no counter variable in it, and the environ still has no
\* counter.
C3_BaseChallengeUnmodified ==
    (Challenged /\ hist.env1.PATH_INFO # plugin.logout_handler_path
                /\ IsNone(hist.env1.logins)) =>
        /\ pc = "challenged"
        /\ Response = Val(hist.challenger)
        /\ \E app_headers \in AppHeaders, forget_headers \in ForgetHeaders :
              Response = RedirectingFormPlugin_challenge(hist.env1, app_headers,
                                                         forget_headers)
        /\ location(Response) = location(Val(hist.challenger))
        /\ ValuesOf(UrlQuery(location(Response)), plugin.login_counter_name) = <<>>
        /\ IsNone(environ.logins)
        /\ environ = hist.env1

\* a challenge off the logout handler's path, with no counter in the
\* environ, returned the redirect to the login form
C3_Witness ==
    /\ pc = "challenged"
    /\ hist.env1.PATH_INFO = OtherPath
    /\ IsNone(hist.env1.logins)
    /\ UrlFront(location(Response)) = plugin.login_form_url
    /\ Len(ValuesOf(UrlQuery(location(Response)), CAME_FROM)) = 1

(***************************************************************************)
(* Properties of identify.                                                 *)
(***************************************************************************)
\* identify has returned, and hist.env0 is the environ it was given
Identified == pc = "identified"

\* the query variables of a URL that have a value, but the one named name
ValuedOthers(url, name) ==
    SelectSeq(Others(UrlQuery(url), name), LAMBDA p : p.v # <<>>)

C5_PostLoginRedirect ==
    (Identified /\ hist.env0.PATH_INFO = plugin.login_handler_path
                /\ Truthy(plugin.post_login_url)) =>
        /\ App.status = "302"
        /\ UrlFront(location(App))
           = (IF StartsWith(Val(plugin.post_login_url), <<"/">>)
              THEN hist.env0.SCRIPT_NAME \o Val(plugin.post_login_url)
              ELSE Val(plugin.post_login_url))
        /\ ValuesOf(UrlQuery(location(App)), CAME_FROM)
           = (IF Truthy(MDGet(parse_dict_querystring(hist.env0), CAME_FROM))
              THEN <<Val(MDGet(parse_dict_querystring(hist.env0), CAME_FROM))>>
              ELSE <<>>)
        /\ ValuesOf(UrlQuery(location(App)), plugin.login_counter_name)
           = <<str(PyInt(CounterRead(hist.env0)))>>
        /\ Len(Params(UrlQuery(location(App))))
           = 1 + Len(ValuesOf(UrlQuery(location(App)), CAME_FROM))

\* the login handler under SCRIPT_NAME /a, with the post-login path /w,
\* given came_from=/p and the counter 1, redirected to /a/w with both
C5_Witness ==
    /\ Identified
    /\ hist.env0.PATH_INFO = plugin.login_handler_path
    /\ plugin.post_login_url = Some(<<"/", "w">>)
    /\ hist.env0.SCRIPT_NAME = <<"/", "a">>
    /\ UrlFront(location(App)) = <<"/", "a", "/", "w">>
    /\ ValuesOf(UrlQuery(location(App)), CAME_FROM) = <<<<"/", "p">>>>
    /\ ValuesOf(UrlQuery(location(App)), plugin.login_counter_name) = <<<<"1">>>>

\* C6: when identify runs off the login handler's path, on the login
\* form's path or with the counter's name anywhere in the query string,
\* whatever its value, then afterwards the environ holds the counter, the
\* counter's name is no longer in QUERY_STRING, and every other variable is
\* still there with its value.
C6_CounterLoadedAndHidden ==
    (Identified /\ hist.env0.PATH_INFO # plugin.login_handler_path
                /\ (\/ hist.env0.PATH_INFO = plugin.login_form_url
                    \/ MDHas(parse_dict_querystring(hist.env0),
                             plugin.login_counter_name))) =>
        /\ ~IsNone(environ.logins)
        /\ ValuesOf(environ.QUERY_STRING, plugin.login_counter_name) = <<>>
        /\ SamePairs(Params(environ.QUERY_STRING),
                     Others(hist.env0.QUERY_STRING, plugin.login_counter_name))

\* C7: identify never fails on the counter: no ValueError or TypeError
\* escapes, and identify fails only where the parent's identify fails.  A
\* counter that is absent or not an integer gives 0: in the redirect of the
\* login handler's branch, and in the environ when the login form's branch
\* loads the counter.
C7_InvalidCounterIsZero ==
    /\ raised \notin {"ValueError", "TypeError"}
    /\ pc = "identify_failed" =>
          RedirectingFormPlugin_identify(hist.env0).exc = raised
    /\ (Identified /\ CounterInvalid(hist.env0)) =>
          /\ hist.env0.PATH_INFO = plugin.login_handler_path =>
                ValuesOf(UrlQuery(location(App)), plugin.login_counter_name)
                = <<<<"0">>>>
          /\ hist.env0.PATH_INFO = plugin.login_form_url =>
                environ.logins = Some(0)
          /\ hist.env0.PATH_INFO # plugin.login_handler_path =>
                (IsNone(environ.logins) \/ environ.logins = Some(0))

\* the login handler, given a counter that is no integer, redirected with
\* the counter 0
C7_Witness ==
    /\ Identified
    /\ hist.env0.PATH_INFO = plugin.login_handler_path
    /\ ValuesOf(hist.env0.QUERY_STRING, plugin.login_counter_name) = <<<<"x">>>>
    /\ ValuesOf(UrlQuery(location(App)), plugin.login_counter_name) = <<<<"0">>>>

(***************************************************************************)
(* Properties of the counter over the pipeline, and of                     *)
(* _insert_qs_variable.                                                    *)
(***************************************************************************)
\* every value a URL gives the counter is the decimal of a number >= 0
CounterNonNegative(url) ==
    \A value \in {At(ValuesOf(UrlQuery(url), plugin.login_counter_name), i) :
                    i \in 1..Len(ValuesOf(UrlQuery(url), plugin.login_counter_name))} :
       /\ Len(value) > 0
       /\ \A i \in 1..Len(value) : IsDigit(At(value, i))

\* C8: the counter is always an integer >= 0: the one the environ holds,
\* and the one written into the redirect of the login handler and into the
\* redirect of a challenge.
C8_CounterNonNegative ==
    /\ ~IsNone(environ.logins) => Val(environ.logins) >= 0
    /\ (Identified /\ hist.env0.PATH_INFO = plugin.login_handler_path) =>
          CounterNonNegative(location(App))
    /\ pc = "challenged" => CounterNonNegative(location(Response))

\* C9: over consecutive failed tries that start from a challenge with no
\* counter, the counter is never lost or reset and grows by one per try:
\* the login form shown after k tries has the counter k in its environ, and
\* the redirect to the login form issued after the k-th try carries the
\* counter k (none before the first try).
C9_CounterGrowsByOne ==
    /\ (pc = "challenged" /\ hist.flow) =>
          /\ UrlFront(location(Response)) = plugin.login_form_url
          /\ ValuesOf(UrlQuery(location(Response)), plugin.login_counter_name)
             = (IF hist.tries = 0 THEN <<>> ELSE <<NatStr(hist.tries)>>)
    /\ (Identified /\ hist.flow /\ environ.PATH_INFO = plugin.login_form_url) =>
          environ.logins = Some(hist.tries)

\* the redirect to the login form after the second failed try carries the
\* counter 2
C9_Witness ==
    /\ pc = "challenged"
    /\ hist.flow
    /\ hist.tries = 2
    /\ ValuesOf(UrlQuery(location(Response)), plugin.login_counter_name) = <<<<"2">>>>

\* C10: inserting the same name and value into the result of a first
\* insertion gives the URL of the first insertion.
C10_InsertIdempotent ==
    ins.step = "twice" => ins.twice = ins.once

\* C11: an insertion changes nothing of the URL but the given name: the
\* result has the scheme, host and path and the fragment of the URL it was
\* given, the name has the given value and no other, and every other
\* variable of the URL's query string is still there with its values.
C11_InsertFrame ==
    ins.step \in {"once", "twice"} =>
        /\ UrlFront(ins.once) = UrlFront(ins.url)
        /\ urlparse(ins.once).fragment = urlparse(ins.url).fragment
        /\ ValuesOf(UrlQuery(ins.once), ins.key) = <<str(ins.value)>>
        /\ SamePairs(Others(UrlQuery(ins.once), ins.key),
                     Others(UrlQuery(ins.url), ins.key))

\* C12: identify returns the identity the parent's identify returned for
\* the same request, in every branch: on the login handler's path, on the
\* login form's path, with the counter in the query string, and otherwise.
C12_IdentityUnchanged ==
    Identified => identity = RedirectingFormPlugin_identify(hist.env0).identity

\* the login handler's branch replaced the application and returned the
\* credentials the parent had found
C12_Witness ==
    /\ Identified
    /\ hist.env0.PATH_INFO = plugin.login_handler_path
    /\ App # Val(hist.base)
    /\ identity = Credentials
    /\ hist.env0.credentials = Credentials

(***************************************************************************)
(* Properties of the constructor.                                          *)
(***************************************************************************)
\* the values the constructor was given under a keyword
Given(name) ==
    {At(hist.kwargs, i).v : i \in {j \in 1..Len(hist.kwargs) :
                                      At(hist.kwargs, j).k = name}}

\* C13: a plugin constructed without a counter name, or with None or an
\* empty one, has the counter name '__logins'; a non-empty name is kept as
\* given; a post-login or post-logout URL that was not given is None, and
\* one that was given is kept.
C13_ConstructorDefaults ==
    /\ Given("login_counter_name") \subseteq {None, Some(<<>>)} =>
          plugin.login_counter_name = LOGINS
    /\ \A name \in Given("login_counter_name") :
          Truthy(name) => plugin.login_counter_name = Val(name)
    /\ Given("post_login_url") = {} => plugin.post_login_url = None
    /\ Given("post_logout_url") = {} => plugin.post_logout_url = None
    /\ \A url \in Given("post_login_url") : plugin.post_login_url = url
    /\ \A url \in Given("post_logout_url") : plugin.post_logout_url = url

\* a plugin constructed with an empty counter name reads the counter
\* under '__logins'
C13_Witness ==
    /\ Given("login_counter_name") = {Some(<<>>)}
    /\ plugin.login_counter_name = LOGINS
    /\ plugin.post_login_url = None
    /\ plugin.post_logout_url = None
    /\ Identified
    /\ environ.logins = Some(1)

(***************************************************************************)
(* Properties of the headers of an overriding challenge.                   *)
(***************************************************************************)
\* the letters of 'location', small and capital
LocationLetters ==
    <<{"l", "L"}, {"o", "O"}, {"c", "C"}, {"a", "A"},
      {"t", "T"}, {"i", "I"}, {"o", "O"}, {"n", "N"}>>

\* name is 'location' in some letter case
IsLocationName(name) ==
    /\ Len(name) = Len(LocationLetters)
    /\ \A i \in 1..Len(LocationLetters) : At(name, i) \in At(LocationLetters, i)

LocationHeaders(headers) == SelectSeq(headers, LAMBDA h : IsLocationName(h.name))
NonLocationHeaders(headers) == SelectSeq(headers, LAMBDA h : ~IsLocationName(h.name))

\* challenge was called on the logout handler's path or with a counter in
\* the environ: it overrides the parent's challenge
Overrode ==
    /\ Challenged
    /\ \/ hist.env1.PATH_INFO = plugin.logout_handler_path
       \/ ~IsNone(hist.env1.logins)

\* the destination challenge computes when it overrides
NewDestination ==
    IF hist.env1.PATH_INFO = plugin.logout_handler_path
    THEN LogoutDestination(hist.env1)
    ELSE _set_logins_in_url(location(Val(hist.challenger)),
                            Val(hist.env1.logins) + 1)

\* C14: when challenge overrides the parent's challenge (logout redirect
\* or failed-login redirect), the redirect carries every header of the
\* parent's challenge except those named 'Location' in any letter case, in
\* the same order, its only location header holds the newly computed
\* destination, and the parent's Location is not in the result.
C14_LocationReplaced ==
    Overrode =>
        /\ pc = "challenged"
        /\ NonLocationHeaders(Response.headers)
             = NonLocationHeaders(Val(hist.challenger).headers)
        /\ Len(LocationHeaders(Response.headers)) = 1
        /\ Head(LocationHeaders(Response.headers)).value = NewDestination
        /\ \A i \in 1..Len(Response.headers) :
              At(Response.headers, i) # Head(Val(hist.challenger).headers)

\* a failed login was redirected: the parent's challenge had its Location
\* and two cookies, the result has the two cookies and the new location
C14_Witness ==
    /\ Overrode
    /\ pc = "challenged"
    /\ hist.env1.PATH_INFO # plugin.logout_handler_path
    /\ Len(Val(hist.challenger).headers) = 3
    /\ IsLocationName(Head(Val(hist.challenger).headers).name)
    /\ Len(NonLocationHeaders(Val(hist.challenger).headers)) = 2
    /\ Len(Response.headers) = 3
    /\ Head(LocationHeaders(Response.headers)).value = NewDestination
    /\ NewDestination # location(Val(hist.challenger))

=============================================================================
